---------------------------- MODULE Spec2Model ----------------------------
(***************************************************************************)
(* Model of the Telegram transport (src/vxtelegram/telegram.py):           *)
(*   - the webhook handler handle_raw_inbound_message with the redis       *)
(*     dedup store (is_duplicate / mark_as_seen);                          *)
(*   - the outbound handler handle_outbound_message with its two query     *)
(*     reply handlers and the response validator validate_outbound.        *)
(* Every handler is a Twisted inlineCallbacks coroutine.  A coroutine runs *)
(* without interruption between suspension points; the model has one       *)
(* action per stretch of code between the suspension points that matter    *)
(* (a redis call, the HTTP call to Telegram).  Python dicts are TLA+       *)
(* records, None is the value None, and a raised exception that nothing in *)
(* the handler catches ends the coroutine in the state "fault".            *)
(***************************************************************************)
EXTENDS Integers, Sequences, FiniteSets, TLC

(***************************************************************************)
(* Bounds of the model.                                                    *)
(***************************************************************************)
MaxReq == 2             \* webhook requests per behaviour
MaxMsg == 1             \* outbound messages per behaviour
MaxStart == 2           \* starts of the transport per behaviour
update_lifetime == 2    \* config.update_lifetime, in clock ticks

Req == 1..MaxReq
Msg == 1..MaxMsg
Start == 1..MaxStart
UpdateIds == {1, 2}

(***************************************************************************)
(* Python values.                                                          *)
(***************************************************************************)
None == "None"
EmptyDict == [k \in {} |-> None]

Has(d, k) == k \in DOMAIN d                        \* k in d
Get(d, k) == IF Has(d, k) THEN d[k] ELSE None      \* d.get(k)
\* d.update(e)
DictUpdate(d, e) == [k \in DOMAIN d \cup DOMAIN e |-> IF Has(e, k) THEN e[k] ELSE d[k]]
\* the parts of a formatted string, in order ('%s...' % x)
Contains(parts, s) == \E i \in 1..Len(parts) : parts[i] = s

(***************************************************************************)
(* Configuration and class attributes.                                     *)
(***************************************************************************)
bot_username == "@bot"
inbound_url == "https://example.org/telegram"
transport_type == "telegram"
transport_name == "telegram_transport"
TELEGRAM_USERNAME == "telegram_username"
TELEGRAM_ID == "telegram_id"
OK == 200
FOUND == 302
BAD_REQUEST == 400

(***************************************************************************)
(* Webhook request bodies.  A body is garbage (not JSON), a JSON value     *)
(* that is no object, an object without update_id, or an update: an object *)
(* with an update_id and a payload.  The handler looks at the payload only *)
(* after the dedup step (line 155), and the model draws it there: until    *)
(* then the payload of a request is "unread".                              *)
(***************************************************************************)
UserBob == [id |-> 42, username |-> "@bob"]
UserAnon == [id |-> 43]
TextMessage(from) == [message_id |-> 5, from |-> from, chat |-> [id |-> from.id], text |-> "hi"]
\* a message in a group: the chat is not the sender
GroupMessage(from) == [message_id |-> 9, from |-> from, chat |-> [id |-> 100], text |-> "hi all"]
ChannelPost == [message_id |-> 6, chat |-> [id |-> 77, username |-> "@chan"], text |-> "post"]
AnonChannelPost == [message_id |-> 7, chat |-> [id |-> 78], text |-> "post"]
PhotoMessage == [message_id |-> 8, from |-> UserBob, chat |-> [id |-> 42]]
InlineQuery(from) == [id |-> "iq1", from |-> from, query |-> "search"]
CallbackQuery(from) == [id |-> "cq1", from |-> from, data |-> "pressed"]
CallbackNoData(from) == [id |-> "cq2", from |-> from]

NoIdKinds == {"garbage", "not_object", "no_update_id"}
Payloads ==
    {"text_user", "text_anon", "channel", "channel_anon", "photo", "other",
     "inline_user", "inline_anon", "callback_user", "callback_nodata",
     "callback_anon", "callback_and_message", "inline_and_message",
     "callback_anon_and_message"}

Contents ==
    {[kind |-> k, uid |-> 0, payload |-> "unread"] : k \in NoIdKinds}
        \cup {[kind |-> "update", uid |-> u, payload |-> "unread"] : u \in UpdateIds}

\* The payload keys of an update.
PayloadOf(p) ==
    CASE p = "text_user" -> [message |-> TextMessage(UserBob)]
      [] p = "text_anon" -> [message |-> GroupMessage(UserAnon)]
      [] p = "channel" -> [message |-> ChannelPost]
      [] p = "channel_anon" -> [message |-> AnonChannelPost]
      [] p = "photo" -> [message |-> PhotoMessage]
      [] p = "other" -> [edited_message |-> TextMessage(UserBob)]
      [] p = "inline_user" -> [inline_query |-> InlineQuery(UserBob)]
      [] p = "inline_anon" -> [inline_query |-> InlineQuery(UserAnon)]
      [] p = "callback_user" -> [callback_query |-> CallbackQuery(UserBob)]
      [] p = "callback_nodata" -> [callback_query |-> CallbackNoData(UserBob)]
      [] p = "callback_anon" -> [callback_query |-> CallbackQuery(UserAnon)]
      [] p = "callback_and_message" ->
            [callback_query |-> CallbackQuery(UserBob), message |-> TextMessage(UserBob)]
      [] p = "inline_and_message" ->
            [inline_query |-> InlineQuery(UserBob), message |-> TextMessage(UserBob)]
      [] p = "callback_anon_and_message" ->
            [callback_query |-> CallbackQuery(UserAnon), message |-> TextMessage(UserBob)]
      [] p = "unread" -> EmptyDict

\* json.loads(content): ValueError for a body that is not JSON, else the
\* decoded value with its Python type.
json_loads(c) ==
    CASE c.kind = "garbage" ->
            [ok |-> FALSE, error |-> "No JSON object could be decoded"]
      [] c.kind = "not_object" -> [ok |-> TRUE, pytype |-> "int", value |-> 5]
      [] c.kind = "no_update_id" ->
            [ok |-> TRUE, pytype |-> "dict", value |-> [message |-> TextMessage(UserBob)]]
      [] c.kind = "update" ->
            [ok |-> TRUE, pytype |-> "dict",
             value |-> DictUpdate([update_id |-> c.uid], PayloadOf(c.payload))]

(***************************************************************************)
(* State.                                                                  *)
(***************************************************************************)
VARIABLES
    request,    \* request[r]: [pc, content, code, finished] of webhook request r
    rlog,       \* rlog[r]: what the handler of request r did, in order
    redis,      \* redis[key]: [seconds, value], the seconds the key still lives
                \* (0 when absent) and the value stored under it
    expired,    \* expired[key]: the key has expired at least once
    elapsed,    \* elapsed[key]: seconds since the key was last written, counted
                \* up to update_lifetime (never written: update_lifetime)
    marked_before, \* marked_before[r]: the requests that had marked r's key when r asked for it
    concurrent, \* concurrent[r]: the requests in flight when r arrived
    outbound,   \* outbound[m]: [pc, message] of outbound message m
    mlog,       \* mlog[m]: what the handler of message m did, in order
    setup,      \* setup[s]: where the s-th start of the transport is
    slog        \* slog[s]: what the s-th start did, in order

vars == <<request, rlog, redis, expired, elapsed, marked_before, concurrent, outbound, mlog,
          setup, slog>>
inVars == <<request, rlog, redis, expired, elapsed, marked_before, concurrent>>
outVars == <<outbound, mlog>>
setVars == <<setup, slog>>

\* One key for every update_id.
get_update_id_key_shared(update_id) == <<"update_id:", 1>>

\* get_update_id_key (lines 222-223)
get_update_id_key(update_id) == <<"update_id:", update_id>>
Keys == {get_update_id_key(u) : u \in UpdateIds}

\* A duplicate check that never finds the key.
redis_exists_never(key) == FALSE

\* No key: nothing stored, no time to live.
NoRecord == [seconds |-> 0, value |-> 0]

\* redis.exists(key)
redis_exists(key) == redis[key].seconds > 0

\* A store whose setex writes nothing.
redis_setex_nothing(key, seconds, value) == redis

\* redis.setex(key, seconds, value): SETEX key seconds value stores the value
\* and lets the key live for `seconds`.
redis_setex(key, seconds, value) ==
    [redis EXCEPT ![key] = [seconds |-> seconds, value |-> value]]

(***************************************************************************)
(* Events a handler leaves in its log.                                     *)
(***************************************************************************)
\* add_status(status, component, type, message, details)
add_status(status, component, type, message, details) ==
    [ev |-> "add_status", status |-> status, component |-> component,
     type |-> type, message |-> message, details |-> details]
\* request.setResponseCode / request.finish
setResponseCode(code) == [ev |-> "setResponseCode", code |-> code]
finish == [ev |-> "finish"]

add_status_bad_inbound(status_type, message, details) ==
    add_status("down", "telegram_inbound", status_type, message, details)

add_status_good_inbound ==
    add_status("ok", "telegram_inbound", "good_inbound", "Good inbound request", None)


\* publish_message(**fields)
publish_message(fields) == [ev |-> "publish_message", msg |-> fields]

\* What a call did: the events it left, and whether it raised.
Returned(events) == [raised |-> FALSE, events |-> events]
Raised(events) == [raised |-> TRUE, events |-> events]

(***************************************************************************)
(* Inbound translation and the query handlers.                             *)
(***************************************************************************)
\* A translation that gives a sender without a username an empty one.
translate_inbound_message_blank(message) ==
    LET sender == IF Has(message, "from") THEN message.from ELSE message.chat
    IN  [telegram_msg_id |-> message.message_id,
         content |-> message.text,
         from_addr |-> sender.id,
         telegram_username |-> IF Has(sender, "username") THEN sender.username ELSE ""]

\* A translation that always takes the chat for the sender.
translate_inbound_message_chat(message) ==
    [telegram_msg_id |-> message.message_id,
     content |-> message.text,
     from_addr |-> message.chat.id,
     telegram_username |-> Get(message.chat, "username")]

\* lines 330-351
translate_inbound_message(message) ==
    LET sender == IF Has(message, "from") THEN message.from ELSE message.chat
    IN  [telegram_msg_id |-> message.message_id,
         content |-> message.text,
         from_addr |-> sender.id,
         telegram_username |-> Get(sender, "username")]

\* callback_query['from']['username'] is subscripted (KeyError when the user
\* has no username), first for the log line, before anything is published.
handle_inbound_callback_query(message_id, callback_query) ==
    IF ~(Has(callback_query, "from") /\ Has(callback_query.from, "username"))
    THEN Raised(<<>>)
    ELSE IF ~(Has(callback_query.from, "id") /\ Has(callback_query, "id"))
    THEN Raised(<<>>)
    ELSE Returned(<<
        publish_message(
            [message_id |-> message_id,
             content |-> Get(callback_query, "data"),
             to_addr |-> bot_username,
             to_addr_type |-> TELEGRAM_USERNAME,
             from_addr |-> callback_query.from.id,
             from_addr_type |-> TELEGRAM_ID,
             transport_type |-> transport_type,
             transport_name |-> transport_name,
             transport_metadata |->
                [type |-> "callback_query",
                 details |-> [callback_query_id |-> callback_query.id],
                 telegram_username |-> callback_query.from.username]]),
        add_status_good_inbound>>)

\* An inline query handler that subscripts the username of the sender.
handle_inbound_inline_query_username(message_id, inline_query) ==
    IF ~(Has(inline_query, "from") /\ Has(inline_query.from, "id")
            /\ Has(inline_query, "query") /\ Has(inline_query, "id")
            /\ Has(inline_query.from, "username"))
    THEN Raised(<<>>)
    ELSE LET meta == [type |-> "inline_query",
                      details |-> [inline_query_id |-> inline_query.id],
                      telegram_username |-> inline_query.from.username]
         IN  Returned(<<
                publish_message(
                    [message_id |-> message_id,
                     content |-> inline_query.query,
                     to_addr |-> bot_username,
                     to_addr_type |-> TELEGRAM_USERNAME,
                     from_addr |-> inline_query.from.id,
                     from_addr_type |-> TELEGRAM_ID,
                     transport_type |-> transport_type,
                     transport_name |-> transport_name,
                     helper_metadata |-> [telegram |-> meta],
                     transport_metadata |-> meta]),
                add_status_good_inbound>>)

\* lines 288-328
handle_inbound_inline_query(message_id, inline_query) ==
    IF ~(Has(inline_query, "from") /\ Has(inline_query.from, "id")
            /\ Has(inline_query, "query") /\ Has(inline_query, "id"))
    THEN Raised(<<>>)
    ELSE LET meta == [type |-> "inline_query",
                      details |-> [inline_query_id |-> inline_query.id],
                      telegram_username |-> Get(inline_query.from, "username")]
         IN  Returned(<<
                publish_message(
                    [message_id |-> message_id,
                     content |-> inline_query.query,
                     to_addr |-> bot_username,
                     to_addr_type |-> TELEGRAM_USERNAME,
                     from_addr |-> inline_query.from.id,
                     from_addr_type |-> TELEGRAM_ID,
                     transport_type |-> transport_type,
                     transport_name |-> transport_name,
                     helper_metadata |-> [telegram |-> meta],
                     transport_metadata |-> meta]),
                add_status_good_inbound>>)

\* A text-message tail that answers the request before it reports.
publish_text_message_finish_first(message_id, update) ==
    LET message == translate_inbound_message(update.message)
    IN  <<finish,
          publish_message(
            [message_id |-> message_id,
             content |-> message.content,
             to_addr |-> bot_username,
             to_addr_type |-> TELEGRAM_USERNAME,
             from_addr |-> message.from_addr,
             from_addr_type |-> TELEGRAM_ID,
             transport_type |-> transport_type,
             transport_name |-> transport_name,
             helper_metadata |->
                [telegram |-> [telegram_username |-> message.telegram_username]],
             transport_metadata |->
                [telegram_msg_id |-> message.telegram_msg_id,
                 telegram_username |-> message.telegram_username]]),
          add_status_good_inbound>>

\* The text-message tail of handle_raw_inbound_message (lines 185-220).
publish_text_message(message_id, update) ==
    LET message == translate_inbound_message(update.message)
    IN  <<publish_message(
            [message_id |-> message_id,
             content |-> message.content,
             to_addr |-> bot_username,
             to_addr_type |-> TELEGRAM_USERNAME,
             from_addr |-> message.from_addr,
             from_addr_type |-> TELEGRAM_ID,
             transport_type |-> transport_type,
             transport_name |-> transport_name,
             helper_metadata |->
                [telegram |-> [telegram_username |-> message.telegram_username]],
             transport_metadata |->
                [telegram_msg_id |-> message.telegram_msg_id,
                 telegram_username |-> message.telegram_username]]),
          add_status_good_inbound,
          finish>>

\* A dispatch that reports an update it ignores as a bad inbound request.
dispatch_update_reports_ignored(message_id, update) ==
    LET ignored == <<add_status_bad_inbound("unexpected_update_format",
                        "Inbound update in unexpected format", None),
                     finish>>
    IN  IF Has(update, "callback_query")
        THEN LET h == handle_inbound_callback_query(message_id, update.callback_query)
             IN  IF h.raised THEN h ELSE Returned(h.events \o <<finish>>)
        ELSE IF Has(update, "inline_query")
        THEN LET h == handle_inbound_inline_query(message_id, update.inline_query)
             IN  IF h.raised THEN h ELSE Returned(h.events \o <<finish>>)
        ELSE IF ~Has(update, "message") THEN Returned(ignored)
        ELSE IF ~Has(update.message, "text") THEN Returned(ignored)
        ELSE Returned(publish_text_message(message_id, update))

\* handle_raw_inbound_message after the dedup step (lines 154-220): first
\* match wins, callback_query, then inline_query, then a text message.
dispatch_update(message_id, update) ==
    IF Has(update, "callback_query")
    THEN LET h == handle_inbound_callback_query(message_id, update.callback_query)
         IN  IF h.raised THEN h ELSE Returned(h.events \o <<finish>>)
    ELSE IF Has(update, "inline_query")
    THEN LET h == handle_inbound_inline_query(message_id, update.inline_query)
         IN  IF h.raised THEN h ELSE Returned(h.events \o <<finish>>)
    ELSE IF ~Has(update, "message") THEN Returned(<<finish>>)
    ELSE IF ~Has(update.message, "text") THEN Returned(<<finish>>)
    ELSE Returned(publish_text_message(message_id, update))

\* The unparseable-body path that answers before it sets the code.
read_update_finish_first(c) ==
    LET parsed == json_loads(c)
    IN  IF ~parsed.ok
        THEN Returned(<<
                add_status_bad_inbound(
                    "unexpected_update_format",
                    "Inbound update in unexpected format",
                    [error |-> parsed.error, req_content |-> c]),
                finish,
                setResponseCode(BAD_REQUEST)>>)
        ELSE IF parsed.pytype # "dict" \/ ~Has(parsed.value, "update_id")
        THEN Raised(<<>>)
        ELSE Returned(<<>>)

\* The unparseable-body path without setResponseCode.
read_update_no_code(c) ==
    LET parsed == json_loads(c)
    IN  IF ~parsed.ok
        THEN Returned(<<
                add_status_bad_inbound(
                    "unexpected_update_format",
                    "Inbound update in unexpected format",
                    [error |-> parsed.error, req_content |-> c]),
                finish>>)
        ELSE IF parsed.pytype # "dict" \/ ~Has(parsed.value, "update_id")
        THEN Raised(<<>>)
        ELSE Returned(<<>>)

\* handle_raw_inbound_message up to the dedup step (lines 131-146).
read_update(c) ==
    LET parsed == json_loads(c)
    IN  IF ~parsed.ok
        THEN Returned(<<
                add_status_bad_inbound(
                    "unexpected_update_format",
                    "Inbound update in unexpected format",
                    [error |-> parsed.error, req_content |-> c]),
                setResponseCode(BAD_REQUEST),
                finish>>)
        ELSE IF parsed.pytype # "dict" \/ ~Has(parsed.value, "update_id")
        THEN Raised(<<>>)
        ELSE Returned(<<>>)

(***************************************************************************)
(* The webhook handler, one action per stretch between redis calls.        *)
(***************************************************************************)
NoContent == [kind |-> "none", uid |-> 0, payload |-> "unread"]

InFlight(r) == request[r].pc \in {"is_duplicate", "mark_as_seen", "dispatch"}
Ended(r) == request[r].pc \in {"done", "fault"}

\* The request record after its handler ran `events` and moved to `pc`.
After(rec, pc, events) ==
    LET codes == SelectSeq(events, LAMBDA e : e.ev = "setResponseCode")
        ends == SelectSeq(events, LAMBDA e : e.ev = "finish")
    IN  [rec EXCEPT
            !.pc = pc,
            !.code = IF codes = <<>> THEN @ ELSE codes[Len(codes)].code,
            !.finished = @ + Len(ends)]

Step(r, pc, events) ==
    /\ request' = [request EXCEPT ![r] = After(@, pc, events)]
    /\ rlog' = [rlog EXCEPT ![r] = @ \o events]

\* A webhook POST arrives: the body is read and decoded; a body that is not
\* JSON is answered 400, else the handler asks redis whether the update_id
\* is known and is suspended until redis answers.  Requests are numbered in
\* the order they arrive, and Telegram numbers its updates in sequence: a
\* request carries a redelivered update or the next new one.
Receive(r, c) ==
    /\ request[r].pc = "idle"
    /\ r > 1 => request[r - 1].pc # "idle"
    /\ c.uid > 1 => \E q \in Req : request[q].content.uid >= c.uid - 1
    /\ LET u == read_update(c)
           pc == IF u.raised THEN "fault"
                 ELSE IF u.events # <<>> THEN "done"
                 ELSE "is_duplicate"
       IN  /\ request' = [request EXCEPT
                    ![r] = After([@ EXCEPT !.content = c], pc, u.events)]
           /\ rlog' = [rlog EXCEPT ![r] = @ \o u.events]
    /\ concurrent' = [concurrent EXCEPT ![r] = {q \in Req : InFlight(q)}]
    /\ UNCHANGED <<redis, expired, marked_before, elapsed, outVars, setVars>>

\* What a redis call leaves in the handler's log.
redis_call(op, key, reply) == [ev |-> op, key |-> key, reply |-> reply]

\* The requests whose setex for `key` redis has served.
Marked(key) ==
    {q \in Req : \E i \in 1..Len(rlog[q]) :
                    rlog[q][i].ev = "setex" /\ rlog[q][i].key = key}

\* A duplicate check whose answer is ignored: every update goes on to be marked.
IsDuplicate_goes_on(r) ==
    /\ request[r].pc = "is_duplicate"
    /\ LET key == get_update_id_key(request[r].content.uid)
           call == redis_call("exists", key, redis_exists(key))
       IN  /\ marked_before' = [marked_before EXCEPT ![r] = Marked(key)]
           /\ Step(r, "mark_as_seen", <<call>>)
    /\ UNCHANGED <<redis, expired, concurrent, elapsed, outVars, setVars>>

\* redis answers exists(key): a duplicate is answered at once (lines 147-151).
\* marked_before[r] remembers whose setex for the key was served before.
IsDuplicate(r) ==
    /\ request[r].pc = "is_duplicate"
    /\ LET key == get_update_id_key(request[r].content.uid)
           call == redis_call("exists", key, redis_exists(key))
       IN  /\ marked_before' = [marked_before EXCEPT ![r] = Marked(key)]
           /\ IF redis_exists(key)
              THEN Step(r, "done", <<call, finish>>)
              ELSE Step(r, "mark_as_seen", <<call>>)
    /\ UNCHANGED <<redis, expired, concurrent, elapsed, outVars, setVars>>

\* redis serves setex(key, 1, config.update_lifetime) (line 152, lines
\* 233-240): the key is given 1 second to live and update_lifetime is the
\* value stored under it.
MarkAsSeen(r) ==
    /\ request[r].pc = "mark_as_seen"
    /\ LET key == get_update_id_key(request[r].content.uid)
       IN  /\ redis' = redis_setex(key, 1, update_lifetime)
           /\ elapsed' = [elapsed EXCEPT ![key] = 0]
           /\ Step(r, "dispatch", <<redis_call("setex", key, TRUE)>>)
    /\ UNCHANGED <<expired, marked_before, concurrent, outVars, setVars>>

\* The handler resumes after mark_as_seen, looks at the payload and runs to
\* its end (lines 154-220).  An update_id names one update: a request that
\* carries an update_id again carries the same payload again.
Dispatch(r, p) ==
    /\ request[r].pc = "dispatch"
    /\ \A q \in Req :
            (/\ request[q].content.uid = request[r].content.uid
             /\ request[q].content.payload # "unread")
            => p = request[q].content.payload
    /\ LET c == [request[r].content EXCEPT !.payload = p]
           d == dispatch_update(r, json_loads(c).value)
       IN  /\ request' = [request EXCEPT
                    ![r] = After([@ EXCEPT !.content = c],
                                 IF d.raised THEN "fault" ELSE "done", d.events)]
           /\ rlog' = [rlog EXCEPT ![r] = @ \o d.events]
    /\ UNCHANGED <<redis, expired, marked_before, concurrent, elapsed, outVars, setVars>>

\* One second passes: every key loses a second, a key at its last expires.
\* Time is followed for as long as a key lives or was written less than
\* update_lifetime ago.
Tick ==
    /\ \E k \in Keys : redis[k].seconds > 0 \/ elapsed[k] < update_lifetime
    /\ redis' = [k \in Keys |->
                    IF redis[k].seconds > 1
                    THEN [redis[k] EXCEPT !.seconds = @ - 1]
                    ELSE NoRecord]
    /\ expired' = [k \in Keys |-> expired[k] \/ redis[k].seconds = 1]
    /\ elapsed' = [k \in Keys |->
                    IF elapsed[k] < update_lifetime THEN elapsed[k] + 1 ELSE elapsed[k]]
    /\ UNCHANGED <<request, rlog, marked_before, concurrent, outVars, setVars>>

\* The handler of a request that has marked its update is lost before it
\* publishes: the worker dies, or publish_message raises (line 196).
Crash(r) ==
    /\ request[r].pc = "dispatch"
    /\ request' = [request EXCEPT ![r].pc = "fault"]
    /\ UNCHANGED <<rlog, redis, expired, elapsed, marked_before, concurrent, outVars, setVars>>

(***************************************************************************)
(* Outbound messages.  A message is named by its shape: the type in its    *)
(* transport_metadata, whether it is a reply (and whether the Telegram     *)
(* message id came with it), and what its helper_metadata holds.           *)
(***************************************************************************)
OutTypes == {"absent", "other", "inline_query", "callback_query"}
OutReplies == {"none", "with_id", "without_id"}
OutHelpers == {"none", "empty", "format", "results", "details", "override"}
OutShapes == [type : OutTypes, reply : OutReplies, helper : OutHelpers]
NoShape == [type |-> "absent", reply |-> "none", helper |-> "none"]

transport_metadata_of(shape) ==
    LET base ==
            CASE shape.type = "absent" -> EmptyDict
              [] shape.type = "other" -> [type |-> "photo"]
              [] shape.type = "inline_query" ->
                    [type |-> "inline_query", details |-> [inline_query_id |-> "iq1"]]
              [] shape.type = "callback_query" ->
                    [type |-> "callback_query", details |-> [callback_query_id |-> "cq1"]]
    IN  IF shape.reply = "with_id"
        THEN DictUpdate(base, [telegram_msg_id |-> 5])
        ELSE base

helper_metadata_of(shape) ==
    CASE shape.helper = "none" -> EmptyDict
      [] shape.helper = "empty" -> [telegram |-> EmptyDict]
      [] shape.helper = "format" -> [telegram |-> [parse_mode |-> "Markdown"]]
      [] shape.helper = "results" -> [telegram |-> [results |-> "results-1"]]
      [] shape.helper = "details" -> [telegram |-> [details |-> [show_alert |-> TRUE]]]
      [] shape.helper = "override" ->
            [telegram |-> [chat_id |-> "other-chat", reply_to_message_id |-> 99]]

\* A reply of the application to the message that request shape.echo
\* published: it goes to the sender of that message, names it in in_reply_to
\* and carries its transport_metadata back unchanged; the helper_metadata are
\* the application's own.
ReplyHelpers == {"none", "results", "details", "override"}
ReplyShapes == [echo : Req, helper : ReplyHelpers]

ReplyMessage(m, shape) ==
    LET original == SelectSeq(rlog[shape.echo],
                              LAMBDA e : e.ev = "publish_message")[1].msg
    IN  [message_id |-> m,
         to_addr |-> original.from_addr,
         content |-> "Outbound message!",
         in_reply_to |-> ToString(original.message_id),
         transport_metadata |-> original.transport_metadata,
         helper_metadata |-> helper_metadata_of(shape)]

OutboundMessage(m, shape) ==
    IF Has(shape, "echo") THEN ReplyMessage(m, shape)
    ELSE
    [message_id |-> m,
     to_addr |-> "chat-9",
     content |-> "Outbound message!",
     in_reply_to |-> IF shape.reply = "none" THEN None ELSE "inbound-1",
     transport_metadata |-> transport_metadata_of(shape),
     helper_metadata |-> helper_metadata_of(shape)]

(***************************************************************************)
(* Responses of the Telegram API.                                          *)
(***************************************************************************)
Codes == {200, 201, 302, 400}
Bodies == {"garbage", "list", "empty_object", "ok_true", "ok_false",
           "ok_false_description", "description"}
Responses == [code : Codes, body : Bodies]

\* response.json(): ValueError for a body that is not JSON.
response_json(body) ==
    CASE body = "garbage" -> [ok |-> FALSE, error |-> "No JSON object could be decoded"]
      [] body = "list" -> [ok |-> TRUE, pytype |-> "list", value |-> <<>>]
      [] body = "empty_object" -> [ok |-> TRUE, pytype |-> "dict", value |-> EmptyDict]
      [] body = "ok_true" ->
            [ok |-> TRUE, pytype |-> "dict", value |-> [ok |-> TRUE, result |-> TRUE]]
      [] body = "ok_false" -> [ok |-> TRUE, pytype |-> "dict", value |-> [ok |-> FALSE]]
      [] body = "ok_false_description" ->
            [ok |-> TRUE, pytype |-> "dict",
             value |-> [ok |-> FALSE, description |-> "Bad request"]]
      [] body = "description" ->
            [ok |-> TRUE, pytype |-> "dict", value |-> [description |-> "Bad request"]]

\* A validator that decodes the body before it looks for a redirect.
validate_outbound_parse_first(response) ==
    LET res == response_json(response.body)
    IN  IF ~res.ok
        THEN [raised |-> FALSE, success |-> FALSE,
              message |-> "unexpected response format",
              status |-> "unexpected_response_format",
              details |-> [error |-> res.error,
                           res_code |-> response.code,
                           res_body |-> response.body]]
        ELSE IF response.code = FOUND
        THEN [raised |-> FALSE, success |-> FALSE,
              message |-> "request redirected",
              status |-> "request_redirected",
              details |-> [error |-> "Unexpected redirect", res_code |-> FOUND]]
        ELSE IF res.pytype # "dict" THEN [raised |-> TRUE]
        ELSE IF response.code = OK /\ ~Has(res.value, "ok") THEN [raised |-> TRUE]
        ELSE IF response.code = OK /\ res.value.ok
        THEN [raised |-> FALSE, success |-> TRUE]
        ELSE IF ~Has(res.value, "description") THEN [raised |-> TRUE]
        ELSE [raised |-> FALSE, success |-> FALSE,
              message |-> "bad response from Telegram",
              status |-> "bad_response",
              details |-> [error |-> res.value.description,
                           res_code |-> response.code]]

\* validate_outbound(response): the dict it returns, or the exception it
\* lets through (res['ok'] and res['description'] are subscripted).
validate_outbound(response) ==
    IF response.code = FOUND
    THEN [raised |-> FALSE, success |-> FALSE,
          message |-> "request redirected",
          status |-> "request_redirected",
          details |-> [error |-> "Unexpected redirect", res_code |-> FOUND]]
    ELSE LET res == response_json(response.body)
         IN  IF ~res.ok
             THEN [raised |-> FALSE, success |-> FALSE,
                   message |-> "unexpected response format",
                   status |-> "unexpected_response_format",
                   details |-> [error |-> res.error,
                                res_code |-> response.code,
                                res_body |-> response.body]]
             ELSE IF res.pytype # "dict" THEN [raised |-> TRUE]
             ELSE IF response.code = OK /\ ~Has(res.value, "ok") THEN [raised |-> TRUE]
             ELSE IF response.code = OK /\ res.value.ok
             THEN [raised |-> FALSE, success |-> TRUE]
             ELSE IF ~Has(res.value, "description") THEN [raised |-> TRUE]
             ELSE [raised |-> FALSE, success |-> FALSE,
                   message |-> "bad response from Telegram",
                   status |-> "bad_response",
                   details |-> [error |-> res.value.description,
                                res_code |-> response.code]]

(***************************************************************************)
(* Events of the outbound handlers.                                        *)
(***************************************************************************)
publish_ack(user_message_id, sent_message_id) ==
    [ev |-> "publish_ack", user_message_id |-> user_message_id,
     sent_message_id |-> sent_message_id]
publish_nack(user_message_id, reason) ==
    [ev |-> "publish_nack", user_message_id |-> user_message_id, reason |-> reason]

\* get_outbound_url(path): api_url, '/', path
get_outbound_url(path) == <<"https://api.telegram.org/bot", "TOKEN", "/", path>>
\* http_client.post(url, data=json.dumps(data), allow_redirects=False)
http_post(path, data) ==
    [ev |-> "http_post", url |-> get_outbound_url(path), path |-> path,
     data |-> data, content_type |-> "application/json", allow_redirects |-> FALSE]
http_response(response) == [ev |-> "http_response", response |-> response]

\* A 'down' status with a text of its own.
add_status_bad_outbound_own_text(status_type, message, details) ==
    add_status("down", "telegram_outbound", status_type,
               <<"Outbound request failed">>, details)

add_status_bad_outbound(status_type, message, details) ==
    add_status("down", "telegram_outbound", status_type, message, details)
add_status_good_outbound ==
    add_status("ok", "telegram_outbound", "good_outbound_request",
               "Outbound request successful", None)

\* A failure report that publishes the nack and forgets the status.
outbound_failure_nack_only(status_type, message_id, message, details) ==
    <<publish_nack(message_id, message)>>

outbound_failure(status_type, message_id, message, details) ==
    <<publish_nack(message_id, message),
      add_status_bad_outbound(status_type, message, details)>>

\* A success report that emits the status before the ack.
outbound_success_status_first(message_id) ==
    <<add_status_good_outbound, publish_ack(message_id, message_id)>>

outbound_success(message_id) ==
    <<publish_ack(message_id, message_id), add_status_good_outbound>>

(***************************************************************************)
(* The outbound handlers up to the HTTP call.                              *)
(***************************************************************************)
\* handle_outbound_message, plain branch (lines 367-391).
send_plain(message) ==
    LET base == [chat_id |-> message.to_addr, text |-> message.content]
        replied ==
            IF message.in_reply_to # None
            THEN DictUpdate(base,
                    [reply_to_message_id |-> message.transport_metadata.telegram_msg_id])
            ELSE base
        outbound_msg ==
            IF Has(message.helper_metadata, "telegram")
            THEN DictUpdate(replied, message.helper_metadata.telegram)
            ELSE replied
    IN  IF message.in_reply_to # None
            /\ ~Has(message.transport_metadata, "telegram_msg_id")
        THEN Raised(<<>>)
        ELSE Returned(<<http_post("sendMessage", outbound_msg)>>)

\* handle_outbound_callback_query up to the HTTP call (lines 411-427):
\* helper_metadata['telegram'] is subscripted, and params.update(None)
\* raises when it has no 'details'.
send_callback_query(message) ==
    LET tm == message.transport_metadata
        hm == message.helper_metadata
    IN  IF ~(Has(tm, "details") /\ Has(tm.details, "callback_query_id"))
        THEN Raised(<<>>)
        ELSE IF ~(Has(hm, "telegram") /\ Has(hm.telegram, "details"))
        THEN Raised(<<>>)
        ELSE Returned(<<
                http_post("answerCallbackQuery",
                    DictUpdate([callback_query_id |-> tm.details.callback_query_id,
                                text |-> message.content],
                               hm.telegram.details))>>)

\* An inline query handler that sends the answer without its results.
send_inline_query_post_anyway(message) ==
    LET tm == message.transport_metadata
        hm == message.helper_metadata
    IN  IF ~(Has(tm, "details") /\ Has(tm.details, "inline_query_id"))
        THEN Raised(<<>>)
        ELSE Returned(<<
                http_post("answerInlineQuery",
                    [inline_query_id |-> tm.details.inline_query_id,
                     results |-> IF Has(hm, "telegram")
                                 THEN Get(hm.telegram, "results") ELSE None])>>)

\* handle_outbound_inline_query up to the HTTP call (lines 454-494).
send_inline_query(message) ==
    LET tm == message.transport_metadata
        hm == message.helper_metadata
        reason == <<"Inline query reply not sent: ", "results", " field missing">>
    IN  IF ~(Has(tm, "details") /\ Has(tm.details, "inline_query_id"))
        THEN Raised(<<>>)
        ELSE IF ~(Has(hm, "telegram") /\ Has(hm.telegram, "results"))
        THEN Returned(<<
                publish_nack(message.message_id, reason),
                add_status("down", "telegram_inline_query_reply",
                           "bad_inline_query_reply", reason,
                           [error |-> "Transport received an outbound inline query reply that did not contain any results."])>>)
        ELSE Returned(<<
                http_post("answerInlineQuery",
                    [inline_query_id |-> tm.details.inline_query_id,
                     results |-> hm.telegram.results])>>)

\* A choice of handler that knows inline queries only.
handler_of_inline_only(message) ==
    LET type == Get(message.transport_metadata, "type")
    IN  IF type = "inline_query" THEN "inline_query" ELSE "plain"

\* Which handler a message goes to (lines 358, 363).
handler_of(message) ==
    LET type == Get(message.transport_metadata, "type")
    IN  IF type = "inline_query" THEN "inline_query"
        ELSE IF type = "callback_query" THEN "callback_query"
        ELSE "plain"

\* handle_outbound_message up to the HTTP call.
send_message(message) ==
    CASE handler_of(message) = "inline_query" -> send_inline_query(message)
      [] handler_of(message) = "callback_query" -> send_callback_query(message)
      [] OTHER -> send_plain(message)

(***************************************************************************)
(* The outbound handlers after the HTTP call.                              *)
(***************************************************************************)
\* The plain branch with the error text of the response put in the reason.
plain_response_with_description(message, validate) ==
    IF validate.success
    THEN outbound_success(message.message_id)
    ELSE outbound_failure(validate.status, message.message_id,
            <<"Message not sent: ", validate.message, ": ", validate.details.error>>,
            validate.details)

\* lines 393-402
plain_response(message, validate) ==
    IF validate.success
    THEN outbound_success(message.message_id)
    ELSE outbound_failure(validate.status, message.message_id,
            <<"Message not sent: ", validate.message>>, validate.details)

\* lines 429-446
callback_query_response(message, validate) ==
    IF validate.success
    THEN outbound_success(message.message_id) \o
            <<add_status("ok", "telegram_callback_query_reply",
                         "good_callback_query_reply",
                         <<"Outbound request successful">>, None)>>
    ELSE outbound_failure(validate.status, message.message_id,
            <<"Callback query reply not sent: ", validate.message>>,
            DictUpdate(validate.details,
                [callback_query_id |->
                    message.transport_metadata.details.callback_query_id]))

\* An inline query report that leaves the query id out of the details.
inline_query_response_no_id(message, validate) ==
    IF validate.success
    THEN outbound_success(message.message_id) \o
            <<add_status("ok", "telegram_inline_query_reply",
                         "good_inline_query_reply",
                         <<"Outbound request successful">>, None)>>
    ELSE outbound_failure(validate.status, message.message_id,
            <<"Inline query reply not sent: ", validate.message>>,
            validate.details)

\* lines 496-513
inline_query_response(message, validate) ==
    IF validate.success
    THEN outbound_success(message.message_id) \o
            <<add_status("ok", "telegram_inline_query_reply",
                         "good_inline_query_reply",
                         <<"Outbound request successful">>, None)>>
    ELSE outbound_failure(validate.status, message.message_id,
            <<"Inline query reply not sent: ", validate.message>>,
            DictUpdate(validate.details,
                [inline_query_id |->
                    message.transport_metadata.details.inline_query_id]))

\* The handler resumed with Telegram's response.
handle_response(message, response) ==
    LET validate == validate_outbound(response)
    IN  IF validate.raised THEN Raised(<<>>)
        ELSE Returned(
            CASE handler_of(message) = "inline_query" ->
                    inline_query_response(message, validate)
              [] handler_of(message) = "callback_query" ->
                    callback_query_response(message, validate)
              [] OTHER -> plain_response(message, validate))

(***************************************************************************)
(* The outbound handler, one action on each side of the HTTP call.         *)
(***************************************************************************)
Posted(events) == \E i \in 1..Len(events) : events[i].ev = "http_post"

\* The bus hands over an outbound message; the handler renders it and
\* posts it, and is suspended until Telegram answers.
Send(m, shape) ==
    /\ outbound[m].pc = "idle"
    /\ m > 1 => outbound[m - 1].pc # "idle"
    /\ LET s == send_message(OutboundMessage(m, shape))
       IN  /\ outbound' = [outbound EXCEPT
                    ![m] = [pc |-> IF s.raised THEN "fault"
                                   ELSE IF Posted(s.events) THEN "awaiting"
                                   ELSE "done",
                            shape |-> shape]]
           /\ mlog' = [mlog EXCEPT ![m] = @ \o s.events]
    /\ UNCHANGED <<inVars, setVars>>

\* The application replies to the message that request r published, and the
\* bus hands the reply over.
Reply(m, r, helper) ==
    /\ \E i \in 1..Len(rlog[r]) : rlog[r][i].ev = "publish_message"
    /\ Send(m, [echo |-> r, helper |-> helper])

\* Telegram answers; the handler validates the response and reports.
Respond(m, response) ==
    /\ outbound[m].pc = "awaiting"
    /\ LET h == handle_response(OutboundMessage(m, outbound[m].shape), response)
       IN  /\ outbound' = [outbound EXCEPT
                    ![m].pc = IF h.raised THEN "fault" ELSE "done"]
           /\ mlog' = [mlog EXCEPT ![m] = @ \o <<http_response(response)>> \o h.events]
    /\ UNCHANGED <<inVars, setVars>>

(***************************************************************************)
(* Starting the transport: setup_transport and setup_webhook.              *)
(***************************************************************************)
add_status_starting ==
    add_status("down", "telegram_setup", "starting",
               "Telegram transport starting...", None)

add_status_good_webhook ==
    add_status("ok", "telegram_webhook", "webhook_setup_success",
               "Webhook setup successful", [webhook_url |-> inbound_url])

\* A 'down' webhook status of one type, whatever went wrong.
add_status_bad_webhook_one_type(status_type, message, details) ==
    add_status("down", "telegram_webhook", "bad_webhook", message, details)

add_status_bad_webhook(status_type, message, details) ==
    add_status("down", "telegram_webhook", status_type, message, details)

\* setup_webhook after the HTTP call (lines 93-106).
webhook_response(response) ==
    LET validate == validate_outbound(response)
    IN  IF validate.raised THEN Raised(<<>>)
        ELSE IF validate.success THEN Returned(<<add_status_good_webhook>>)
        ELSE Returned(<<
                add_status_bad_webhook(validate.status,
                    <<"Webhook setup failed: ", validate.message>>,
                    validate.details)>>)

\* A start that posts to setWebhook before it reports 'starting'.
SetupTransport_post_first(s) ==
    /\ setup[s] = "idle"
    /\ s > 1 => setup[s - 1] # "idle"
    /\ setup' = [setup EXCEPT ![s] = "awaiting"]
    /\ slog' = [slog EXCEPT ![s] =
            <<http_post("setWebhook", [url |-> inbound_url]), add_status_starting>>]
    /\ UNCHANGED <<inVars, outVars>>

\* The transport starts: setup_transport reports 'starting', then
\* setup_webhook posts the inbound url to setWebhook and is suspended until
\* Telegram answers (lines 64-91).  A transport is started again only after
\* its start before.
SetupTransport(s) ==
    /\ setup[s] = "idle"
    /\ s > 1 => setup[s - 1] # "idle"
    /\ setup' = [setup EXCEPT ![s] = "awaiting"]
    /\ slog' = [slog EXCEPT ![s] =
            <<add_status_starting, http_post("setWebhook", [url |-> inbound_url])>>]
    /\ UNCHANGED <<inVars, outVars>>

\* Telegram answers the setWebhook call (lines 93-106).
SetupWebhook(s, response) ==
    /\ setup[s] = "awaiting"
    /\ LET h == webhook_response(response)
       IN  /\ setup' = [setup EXCEPT ![s] = IF h.raised THEN "fault" ELSE "done"]
           /\ slog' = [slog EXCEPT ![s] = @ \o <<http_response(response)>> \o h.events]
    /\ UNCHANGED <<inVars, outVars>>

(***************************************************************************)
(* Specifications.                                                         *)
(***************************************************************************)
Init ==
    /\ request = [r \in Req |->
            [pc |-> "idle", content |-> NoContent, code |-> OK, finished |-> 0]]
    /\ rlog = [r \in Req |-> <<>>]
    /\ redis = [k \in Keys |-> NoRecord]
    /\ elapsed = [k \in Keys |-> update_lifetime]
    /\ expired = [k \in Keys |-> FALSE]
    /\ marked_before = [r \in Req |-> {}]
    /\ concurrent = [r \in Req |-> {}]
    /\ outbound = [m \in Msg |-> [pc |-> "idle", shape |-> NoShape]]
    /\ mlog = [m \in Msg |-> <<>>]
    /\ setup = [s \in Start |-> "idle"]
    /\ slog = [s \in Start |-> <<>>]

NextInbound ==
    \/ \E r \in Req, c \in Contents : Receive(r, c)
    \/ \E r \in Req : IsDuplicate(r)
    \/ \E r \in Req : MarkAsSeen(r)
    \/ \E r \in Req, p \in Payloads : Dispatch(r, p)
    \/ \E r \in Req : Crash(r)
    \/ Tick

NextOutbound ==
    \/ \E m \in Msg, shape \in OutShapes : Send(m, shape)
    \/ \E m \in Msg, response \in Responses : Respond(m, response)

NextSetup ==
    \/ \E s \in Start : SetupTransport(s)
    \/ \E s \in Start, response \in Responses : SetupWebhook(s, response)

\* The transport as a whole.  setup_transport starts the HTTP resource in
\* the setup of its base class (line 66) and reports 'starting' at once
\* (line 67): requests and outbound messages are handled from then on, also
\* while setup_webhook waits for Telegram.  The tasks of the three sides
\* interleave freely; the whole is explored over a few answers of Telegram,
\* a few updates and a few outbound messages of each kind.
Started == \E s \in Start : setup[s] # "idle"

Answers ==
    {[code |-> 200, body |-> "ok_true"],
     [code |-> 400, body |-> "ok_false_description"],
     [code |-> 302, body |-> "garbage"],
     [code |-> 200, body |-> "empty_object"]}

Updates == {"text_user", "inline_user", "callback_user", "callback_anon", "other"}

Messages ==
    {NoShape,
     [type |-> "inline_query", reply |-> "none", helper |-> "results"],
     [type |-> "callback_query", reply |-> "none", helper |-> "none"]}

NextTasks ==
    \/ \E r \in Req, c \in Contents : Receive(r, c)
    \/ \E r \in Req : IsDuplicate(r)
    \/ \E r \in Req : MarkAsSeen(r)
    \/ \E r \in Req, p \in Updates : Dispatch(r, p)
    \/ \E m \in Msg, shape \in Messages : Send(m, shape)
    \/ \E m \in Msg, r \in Req, helper \in ReplyHelpers : Reply(m, r, helper)
    \/ \E m \in Msg, response \in Answers : Respond(m, response)

Next ==
    \/ \E s \in Start : SetupTransport(s)
    \/ \E s \in Start, response \in Answers : SetupWebhook(s, response)
    \/ Started /\ \E r \in Req, c \in Contents : Receive(r, c)
    \/ Started /\ \E r \in Req : IsDuplicate(r)
    \/ Started /\ \E r \in Req : MarkAsSeen(r)
    \/ Started /\ \E r \in Req, p \in Updates : Dispatch(r, p)
    \/ Started /\ \E r \in Req : Crash(r)
    \/ Started /\ Tick
    \/ Started /\ \E m \in Msg, shape \in Messages : Send(m, shape)
    \/ Started /\ \E m \in Msg, r \in Req, helper \in ReplyHelpers : Reply(m, r, helper)
    \/ Started /\ \E m \in Msg, response \in Answers : Respond(m, response)

\* The handlers are Twisted callbacks: once redis or Telegram has answered,
\* the reactor resumes the handler that waits for the answer.  The store and
\* the bus answer every call and Telegram answers every request; whether
\* the application replies is its own choice.
Fairness ==
    /\ \A r \in Req : WF_vars(IsDuplicate(r))
    /\ \A r \in Req : WF_vars(MarkAsSeen(r))
    /\ \A r \in Req : WF_vars(\E p \in Updates : Dispatch(r, p))
    /\ \A m \in Msg : WF_vars(\E response \in Answers : Respond(m, response))

\* The start alone, the webhook side alone, the outbound side alone, all
\* together, the tasks of a started transport with the application that
\* replies to them, and these tasks under fair scheduling.
SpecSetup == Init /\ [][NextSetup]_vars
SpecInbound == Init /\ [][NextInbound]_vars
SpecOutbound == Init /\ [][NextOutbound]_vars
Spec == Init /\ [][Next]_vars
SpecTasks == Init /\ [][NextTasks]_vars
SpecLive == Init /\ [][NextTasks]_vars /\ Fairness

(***************************************************************************)
(* Reading the logs.                                                       *)
(***************************************************************************)
Events(log, ev) == SelectSeq(log, LAMBDA e : e.ev = ev)
Count(log, ev) == Len(Events(log, ev))
Statuses(log, status) ==
    SelectSeq(log, LAMBDA e : e.ev = "add_status" /\ e.status = status)
\* The places of the events `ev` in a log.
Places(log, ev) == {i \in 1..Len(log) : log[i].ev = ev}

\* The webhook requests that carried update_id u.
Deliveries(u) ==
    {r \in Req : request[r].content.kind = "update" /\ request[r].content.uid = u}
\* One request had ended when the other arrived.
OneAfterTheOther(r, q) == r \notin concurrent[q] /\ q \notin concurrent[r]
\* The request passed the duplicate check: redis answered that the key is unknown.
Passed(r) == \E i \in Places(rlog[r], "exists") : ~rlog[r][i].reply
\* The messages published for a set of requests.
PublishedBy(D) == UNION {{<<r, i>> : i \in Places(rlog[r], "publish_message")} : r \in D}
Publishable == Payloads \ {"photo", "other"}

Answered(m) == Count(mlog[m], "http_response") = 1
ResponseOf(m) == Events(mlog[m], "http_response")[1].response
Finished(m) == outbound[m].pc \in {"done", "fault"}

(***************************************************************************)
(* C1.  Idempotent ingestion: an update with a publishable payload (a text *)
(* message, an inline query or a callback query) that is delivered two or  *)
(* more times with the same update_id, each delivery starting after the    *)
(* previous one has finished and all within the TTL of the dedup record,   *)
(* has exactly one message published for it in total.                      *)
(* Fails on the code: a callback query of a user without a username raises *)
(* KeyError after the update has been marked, so nothing is published for  *)
(* the first delivery and every later one is dropped as a duplicate.       *)
(***************************************************************************)
C1_IdempotentIngestion ==
    \A u \in UpdateIds :
        LET D == Deliveries(u)
            first == CHOOSE r \in D : \A q \in D : r <= q
        IN  (/\ Cardinality(D) >= 2
             /\ \A r \in D : Ended(r)
             /\ \A r, q \in D : r # q => OneAfterTheOther(r, q)
             /\ ~expired[get_update_id_key(u)]
             /\ request[first].content.payload \in Publishable)
            => Cardinality(PublishedBy(D)) = 1

(***************************************************************************)
(* C2.  As claimed: two webhook requests with the same update_id that are  *)
(* in flight at the same time never both pass the duplicate check.         *)
(* Fails on the code: is_duplicate and mark_as_seen are two redis calls,   *)
(* and both requests may be told "unknown" before either has marked.       *)
(***************************************************************************)
C2_NeverBothPass ==
    \A r, q \in Req :
        (/\ r # q
         /\ request[r].content.kind = "update"
         /\ request[q].content.kind = "update"
         /\ request[r].content.uid = request[q].content.uid
         /\ q \in concurrent[r])
        => ~(Passed(r) /\ Passed(q))

(***************************************************************************)
(* C2, amended.  Two webhook requests with the same update_id both pass    *)
(* the duplicate check, within the TTL, only when each one's is_duplicate  *)
(* was served before the other's mark_as_seen: a request whose             *)
(* is_duplicate is served after the other's mark_as_seen is dropped as a   *)
(* duplicate and publishes nothing.                                        *)
(***************************************************************************)
C2_BothPassOnlyInRaceWindow ==
    \A r, q \in Req :
        (/\ r # q
         /\ request[r].content.kind = "update"
         /\ request[q].content.kind = "update"
         /\ request[r].content.uid = request[q].content.uid
         /\ ~expired[get_update_id_key(request[r].content.uid)])
        => /\ (Passed(r) /\ Passed(q))
                => (q \notin marked_before[r] /\ r \notin marked_before[q])
           /\ q \in marked_before[r]
                => (~Passed(r) /\ Count(rlog[r], "publish_message") = 0)

\* Two requests in flight together, the second asking after the first marked.
C2_Witness ==
    \E r, q \in Req :
        /\ r # q
        /\ q \in concurrent[r]
        /\ request[r].content.uid = request[q].content.uid
        /\ ~expired[get_update_id_key(request[r].content.uid)]
        /\ q \in marked_before[r]
        /\ Ended(r) /\ Ended(q)
        /\ Count(rlog[q], "publish_message") = 1

(***************************************************************************)
(* C3.  A webhook request whose body is not JSON is answered 400, nothing  *)
(* is published for it, redis is neither asked nor written, and exactly    *)
(* one 'down' status of type unexpected_update_format on component         *)
(* telegram_inbound is emitted.                                            *)
(***************************************************************************)
C3_UnparseableBody ==
    \A r \in Req :
        request[r].content.kind = "garbage"
        => /\ request[r].pc = "done"
           /\ request[r].code = 400
           /\ request[r].finished = 1
           /\ Count(rlog[r], "publish_message") = 0
           /\ Count(rlog[r], "exists") = 0
           /\ Count(rlog[r], "setex") = 0
           /\ Count(rlog[r], "add_status") = 1
           /\ LET status == Events(rlog[r], "add_status")[1]
              IN  /\ status.status = "down"
                  /\ status.type = "unexpected_update_format"
                  /\ status.component = "telegram_inbound"

\* A body that is not JSON arrived while redis held a live key.
C3_Witness ==
    \E r \in Req :
        /\ request[r].content.kind = "garbage"
        /\ \E k \in Keys : redis[k].seconds > 0

(***************************************************************************)
(* C4.  Every webhook request whose body parses as JSON is answered with   *)
(* HTTP 200, whatever the value holds, and no request ends in an unhandled *)
(* fault without a response.                                               *)
(* Fails on the code: a JSON value that is no object or has no update_id,  *)
(* and a callback query of a user without a username, raise out of the     *)
(* handler, which never finishes the response.                             *)
(***************************************************************************)
C4_ParsedBodyAnswered200 ==
    \A r \in Req :
        (request[r].content.kind \in {"not_object", "no_update_id", "update"} /\ Ended(r))
        => /\ request[r].pc = "done"
           /\ request[r].finished = 1
           /\ request[r].code = 200

(***************************************************************************)
(* C5.  Once the delivery of an outbound message has finished, whatever    *)
(* the message and whatever Telegram answered, exactly one event has been  *)
(* published for it: one ack or one nack, never both and never neither.    *)
(* Fails on the code: validate_outbound subscripts res['ok'] and           *)
(* res['description'], and the handlers subscript metadata, so some        *)
(* messages and responses end the handler with an exception and no event.  *)
(***************************************************************************)
C5_ExactlyOneEvent ==
    \A m \in Msg :
        Finished(m)
        => Count(mlog[m], "publish_ack") + Count(mlog[m], "publish_nack") = 1

(***************************************************************************)
(* C6.  An outbound call answered with code 200 and a JSON body whose ok   *)
(* is true yields exactly one ack with user_message_id = sent_message_id = *)
(* the message_id, no nack, and then one 'ok' status of type               *)
(* good_outbound_request on component telegram_outbound.                   *)
(***************************************************************************)
GoodOutboundStatus(e) ==
    /\ e.ev = "add_status"
    /\ e.status = "ok"
    /\ e.type = "good_outbound_request"
    /\ e.component = "telegram_outbound"

C6_SuccessAcked ==
    \A m \in Msg :
        (Answered(m) /\ ResponseOf(m).code = 200 /\ ResponseOf(m).body = "ok_true")
        => LET log == mlog[m]
               acks == Places(log, "publish_ack")
               good == {i \in 1..Len(log) : GoodOutboundStatus(log[i])}
           IN  /\ outbound[m].pc = "done"
               /\ Cardinality(acks) = 1
               /\ \A i \in acks :
                    log[i].user_message_id = m /\ log[i].sent_message_id = m
               /\ Count(log, "publish_nack") = 0
               /\ Cardinality(good) = 1
               /\ \A i \in acks : \A j \in good : i < j

C6_Witness ==
    \E m \in Msg :
        /\ Answered(m)
        /\ ResponseOf(m).code = 200
        /\ ResponseOf(m).body = "ok_true"
        /\ Count(mlog[m], "publish_ack") = 1

(***************************************************************************)
(* C7.  An outbound call that fails validation (a redirect, a body that is *)
(* not JSON, or a rejection by the API: a JSON error body with its         *)
(* description) yields exactly one nack and exactly one 'down' status, and *)
(* no further HTTP request: no outbound message ever has more than one     *)
(* HTTP request issued for it.                                             *)
(***************************************************************************)
Redirected(response) == response.code = 302
Unparseable(response) == response.code # 302 /\ response.body = "garbage"
\* ok false with a description, or a description under a code other than 200
Rejected(response) ==
    /\ response.code # 302
    /\ \/ response.body = "ok_false_description"
       \/ response.body = "description" /\ response.code # 200
FailsValidation(response) ==
    Redirected(response) \/ Unparseable(response) \/ Rejected(response)

SentMessage(m) ==
    \E i \in Places(mlog[m], "http_post") : mlog[m][i].path = "sendMessage"

C9_RedirectWhateverTheBody ==
    \A m \in Msg :
        (Answered(m) /\ ResponseOf(m).code = 302)
        => /\ outbound[m].pc = "done"
           /\ Count(mlog[m], "publish_ack") = 0
           /\ Count(mlog[m], "publish_nack") = 1
           /\ Contains(Events(mlog[m], "publish_nack")[1].reason, "request redirected")
           /\ Len(Statuses(mlog[m], "down")) = 1
           /\ LET status == Statuses(mlog[m], "down")[1]
              IN  /\ status.type = "request_redirected"
                  /\ status.details.error = "Unexpected redirect"
                  /\ status.details.res_code = 302

\* A redirect whose body is not JSON.
C9_Witness ==
    \E m \in Msg :
        /\ Answered(m)
        /\ ResponseOf(m) = [code |-> 302, body |-> "garbage"]
        /\ Count(mlog[m], "publish_nack") = 1

(***************************************************************************)
(* C10.  validate_outbound puts every response in exactly one of four      *)
(* classes: code 302 is Redirected; else a body that is not JSON is        *)
(* MalformedBody (unexpected_response_format, with res_code and the body); *)
(* else code 200 with ok true is Success; else it is ApiError              *)
(* (bad_response) with res_code the code and error the description of the  *)
(* body.  Success if and only if code 200, a JSON body and ok true.        *)
(* Fails on the code: res['ok'] and res['description'] are subscripted, so *)
(* code 201 with ok true (a body without description) raises KeyError      *)
(* instead of giving ApiError.                                             *)
(***************************************************************************)
BodyField(body, k) ==
    IF response_json(body).ok THEN Get(response_json(body).value, k) ELSE None

C10_FourOutcomes ==
    \A m \in Msg :
        Answered(m)
        => LET response == ResponseOf(m)
               json == response.body # "garbage"
               success == response.code = 200 /\ json /\ response.body = "ok_true"
               log == mlog[m]
               down == Statuses(log, "down")
           IN  /\ outbound[m].pc = "done"
               /\ success <=> Count(log, "publish_ack") = 1
               /\ ~success =>
                    /\ Count(log, "publish_nack") = 1
                    /\ Len(down) = 1
                    /\ down[1].details.res_code = response.code
                    /\ response.code = 302 => down[1].type = "request_redirected"
                    /\ (response.code # 302 /\ ~json) =>
                            /\ down[1].type = "unexpected_response_format"
                            /\ down[1].details.res_body = response.body
                    /\ (response.code # 302 /\ json) =>
                            /\ down[1].type = "bad_response"
                            /\ down[1].details.error
                                = BodyField(response.body, "description")

(***************************************************************************)
(* Reading an outbound message and the request rendered for it.            *)
(***************************************************************************)
Sent(m) == outbound[m].pc # "idle"
MessageOf(m) == OutboundMessage(m, outbound[m].shape)
TypeOf(m) == Get(MessageOf(m).transport_metadata, "type")
Plain(m) == TypeOf(m) \notin {"inline_query", "callback_query"}
Posts(m) == Events(mlog[m], "http_post")
HelperTelegram(m) == Get(MessageOf(m).helper_metadata, "telegram")

(***************************************************************************)
(* C11.  For an outbound message of type inline_query whose                *)
(* helper_metadata.telegram has no 'results' (or whose helper_metadata has *)
(* no 'telegram' at all), no HTTP request is ever issued, exactly one nack *)
(* is published whose reason contains the word 'results', exactly one      *)
(* 'down' status is emitted, and no ack is published.                      *)
(***************************************************************************)
C11_InlineReplyWithoutResults ==
    \A m \in Msg :
        (/\ Sent(m)
         /\ TypeOf(m) = "inline_query"
         /\ ~(Has(MessageOf(m).helper_metadata, "telegram")
                /\ Has(HelperTelegram(m), "results")))
        => /\ outbound[m].pc = "done"
           /\ Count(mlog[m], "http_post") = 0
           /\ Count(mlog[m], "http_response") = 0
           /\ Count(mlog[m], "publish_nack") = 1
           /\ Events(mlog[m], "publish_nack")[1].user_message_id = m
           /\ Contains(Events(mlog[m], "publish_nack")[1].reason, "results")
           /\ Len(Statuses(mlog[m], "down")) = 1
           /\ Len(Statuses(mlog[m], "ok")) = 0
           /\ Count(mlog[m], "publish_ack") = 0

\* An inline query reply with formatting options and no results was handled.
C11_Witness ==
    \E m \in Msg :
        /\ Sent(m)
        /\ TypeOf(m) = "inline_query"
        /\ outbound[m].shape.helper = "format"
        /\ Count(mlog[m], "publish_nack") = 1

(***************************************************************************)
(* C12.  For every plain outbound message one sendMessage body is rendered *)
(* and it has reply_to_message_id, equal to                                *)
(* transport_metadata.telegram_msg_id, if and only if in_reply_to is set;  *)
(* when in_reply_to is unset the body has no reply_to_message_id, whatever *)
(* helper_metadata.telegram contains.                                      *)
(* Fails on the code: helper_metadata.telegram is merged into the body     *)
(* last, so its reply_to_message_id is sent for a message that replies to  *)
(* nothing; and a reply whose transport_metadata has no telegram_msg_id    *)
(* raises KeyError before anything is rendered.                            *)
(***************************************************************************)
C12_ReplyTargetIffInReplyTo ==
    \A m \in Msg :
        (Sent(m) /\ Plain(m))
        => /\ Len(Posts(m)) = 1
           /\ LET body == Posts(m)[1].data
                  message == MessageOf(m)
              IN  IF message.in_reply_to # None
                  THEN /\ Has(body, "reply_to_message_id")
                       /\ Has(message.transport_metadata, "telegram_msg_id")
                       /\ body.reply_to_message_id
                            = message.transport_metadata.telegram_msg_id
                  ELSE ~Has(body, "reply_to_message_id")

(***************************************************************************)
(* C13.  An outbound message is sent to one Telegram method, chosen by     *)
(* transport_metadata.type alone: answerInlineQuery if and only if the     *)
(* type is inline_query, answerCallbackQuery if and only if it is          *)
(* callback_query, sendMessage for an absent or any other type.  The       *)
(* request is a single JSON POST that does not follow redirects: no        *)
(* message has a second request, and none follows an answer 302.           *)
(***************************************************************************)
MethodOf(type) ==
    IF type = "inline_query" THEN "answerInlineQuery"
    ELSE IF type = "callback_query" THEN "answerCallbackQuery"
    ELSE "sendMessage"

C13_OneMethodByTypeAlone ==
    \A m \in Msg :
        LET log == mlog[m]
        IN  /\ Len(Posts(m)) <= 1
            /\ outbound[m].pc = "awaiting" => Len(Posts(m)) = 1
            /\ \A i \in Places(log, "http_post") :
                /\ log[i].path = MethodOf(TypeOf(m))
                /\ log[i].url = get_outbound_url(MethodOf(TypeOf(m)))
                /\ log[i].content_type = "application/json"
                /\ ~log[i].allow_redirects
            /\ \A i \in Places(log, "http_response") :
                /\ Len(Posts(m)) = 1
                /\ \A j \in Places(log, "http_post") : j < i

\* A callback query reply was posted and answered with a redirect.
C13_Witness ==
    \E m \in Msg :
        /\ TypeOf(m) = "callback_query"
        /\ Answered(m)
        /\ ResponseOf(m).code = 302
        /\ outbound[m].pc = "done"
        /\ Posts(m)[1].path = "answerCallbackQuery"

(***************************************************************************)
(* C14.  For every plain outbound message, those with entries in           *)
(* helper_metadata.telegram included, one sendMessage body is rendered     *)
(* whose chat_id is the to_addr of the message and whose text is its       *)
(* content.                                                                *)
(* Fails on the code: helper_metadata.telegram is merged into the body     *)
(* last, so a chat_id (or text) in it replaces the one of the message.     *)
(***************************************************************************)
C14_ChatIdAndTextOfTheMessage ==
    \A m \in Msg :
        (Sent(m) /\ Plain(m))
        => /\ Len(Posts(m)) = 1
           /\ Posts(m)[1].path = "sendMessage"
           /\ Posts(m)[1].data.chat_id = MessageOf(m).to_addr
           /\ Posts(m)[1].data.text = MessageOf(m).content

(***************************************************************************)
(* C15.  For every outbound message of type callback_query, also when its  *)
(* helper_metadata has no 'telegram' or its helper_metadata.telegram has   *)
(* no 'details', exactly one POST to answerCallbackQuery is issued, with   *)
(* callback_query_id = transport_metadata.details.callback_query_id, text  *)
(* = content, and the entries of helper_metadata.telegram.details when     *)
(* there are any.                                                          *)
(* Fails on the code: helper_metadata['telegram'] is subscripted and       *)
(* dict.update is given .get('details'), so a message without 'telegram'   *)
(* raises KeyError, one without 'details' raises TypeError, and no         *)
(* request is issued.                                                      *)
(***************************************************************************)
C15_CallbackReplyAlwaysPosted ==
    \A m \in Msg :
        (Sent(m) /\ TypeOf(m) = "callback_query")
        => /\ Len(Posts(m)) = 1
           /\ Posts(m)[1].path = "answerCallbackQuery"
           /\ LET body == Posts(m)[1].data
                  message == MessageOf(m)
                  extra == IF Has(message.helper_metadata, "telegram")
                              /\ Has(HelperTelegram(m), "details")
                           THEN HelperTelegram(m).details ELSE EmptyDict
              IN  /\ body.callback_query_id
                        = message.transport_metadata.details.callback_query_id
                  /\ body.text = message.content
                  /\ \A k \in DOMAIN extra : Has(body, k) /\ body[k] = extra[k]

(***************************************************************************)
(* Reading a webhook request.                                              *)
(***************************************************************************)
UpdateOf(r) == json_loads(request[r].content).value
Published(r) == Events(rlog[r], "publish_message")
\* The kind of query or message a published message was made from.
KindPublished(msg) ==
    IF Get(msg.transport_metadata, "type") = "callback_query" THEN "callback_query"
    ELSE IF Get(msg.transport_metadata, "type") = "inline_query" THEN "inline_query"
    ELSE "message"
\* The payload keys of an update the dispatch knows, and the first of them.
Known(update) == {k \in {"callback_query", "inline_query", "message"} : Has(update, k)}
HighestPriority(update) ==
    IF Has(update, "callback_query") THEN "callback_query"
    ELSE IF Has(update, "inline_query") THEN "inline_query"
    ELSE "message"
GoodInboundStatus(e) ==
    /\ e.ev = "add_status"
    /\ e.status = "ok"
    /\ e.type = "good_inbound"
    /\ e.component = "telegram_inbound"

(***************************************************************************)
(* C16.  Inbound dispatch is first match wins, in the order callback_query,*)
(* inline_query, text message: an update that carries several payload keys *)
(* at once (callback_query and message, say) is handled as one kind, the   *)
(* highest-priority one present, and exactly one message is published for  *)
(* it.                                                                     *)
(* Fails on the code: the callback query is chosen first, as claimed, but  *)
(* a callback query of a user without a username raises KeyError in        *)
(* handle_inbound_callback_query, so for an update with such a callback    *)
(* query and a text message nothing is published.                          *)
(***************************************************************************)
C16_FirstMatchWins ==
    \A r \in Req :
        (/\ request[r].content.kind = "update"
         /\ Ended(r)
         /\ Passed(r)
         /\ Cardinality(Known(UpdateOf(r))) >= 2)
        => /\ Len(Published(r)) = 1
           /\ KindPublished(Published(r)[1].msg) = HighestPriority(UpdateOf(r))

(***************************************************************************)
(* C17.  For every update that is not a duplicate and is handled           *)
(* successfully (the handler published for it and ended without an         *)
(* exception), exactly one inbound message is published, with to_addr the  *)
(* configured bot username, then exactly one 'ok' status of type           *)
(* good_inbound on component telegram_inbound is emitted, then the HTTP    *)
(* response is finished with code 200, in that order.                      *)
(***************************************************************************)
C17_PublishStatusFinish ==
    \A r \in Req :
        (/\ request[r].content.kind = "update"
         /\ Passed(r)
         /\ request[r].pc = "done"
         /\ request[r].content.payload \in Publishable)
        => LET log == rlog[r]
               pubs == Places(log, "publish_message")
               good == {i \in 1..Len(log) : GoodInboundStatus(log[i])}
               ends == Places(log, "finish")
           IN  /\ Cardinality(pubs) = 1
               /\ \A i \in pubs : log[i].msg.to_addr = bot_username
               /\ Cardinality(good) = 1
               /\ Count(log, "add_status") = 1
               /\ Cardinality(ends) = 1
               /\ request[r].finished = 1
               /\ request[r].code = 200
               /\ \A i \in pubs : \A j \in good : \A k \in ends : i < j /\ j < k
               /\ \A k \in ends : k = Len(log)

\* A text message and an inline query were both handled to the end.
C17_Witness ==
    \E r, q \in Req :
        /\ request[r].content.payload = "text_user"
        /\ request[q].content.payload = "inline_anon"
        /\ request[r].pc = "done" /\ request[q].pc = "done"
        /\ Len(Published(r)) = 1 /\ Len(Published(q)) = 1

(***************************************************************************)
(* C18.  For every parsed update that has none of callback_query,          *)
(* inline_query and message, and for every update whose message has no     *)
(* text, no inbound message is published, no status is emitted, and the    *)
(* HTTP response is 200.                                                   *)
(***************************************************************************)
Ignored(update) ==
    /\ ~Has(update, "callback_query")
    /\ ~Has(update, "inline_query")
    /\ Has(update, "message") => ~Has(update.message, "text")

C18_IgnoredUpdates ==
    \A r \in Req :
        (/\ request[r].content.kind = "update"
         /\ request[r].content.payload # "unread"
         /\ Ended(r)
         /\ Ignored(UpdateOf(r)))
        => /\ request[r].pc = "done"
           /\ Len(Published(r)) = 0
           /\ Count(rlog[r], "add_status") = 0
           /\ request[r].finished = 1
           /\ request[r].code = 200

\* An update without a known payload and a message without text both went
\* through the dispatch.
C18_Witness ==
    \E r, q \in Req :
        /\ request[r].content.payload = "other"
        /\ request[q].content.payload = "photo"
        /\ Passed(r) /\ Passed(q)
        /\ Ended(r) /\ Ended(q)

(***************************************************************************)
(* C19.  A webhook request whose update_id is in the dedup store when the  *)
(* handler asks for it ends with HTTP 200 and has published no message,    *)
(* emitted no status and written nothing to the dedup store.               *)
(***************************************************************************)
ToldDuplicate(r) == \E i \in Places(rlog[r], "exists") : rlog[r][i].reply

C19_DuplicateLeavesNoTrace ==
    \A r \in Req :
        ToldDuplicate(r)
        => /\ request[r].pc = "done"
           /\ request[r].code = 200
           /\ request[r].finished = 1
           /\ Len(Published(r)) = 0
           /\ Count(rlog[r], "add_status") = 0
           /\ Count(rlog[r], "setex") = 0
           /\ rlog[r][Len(rlog[r])] = finish

\* An update was published, then delivered again and dropped while its key
\* was one second from expiring.
C19_Witness ==
    \E r, q \in Req :
        /\ r # q
        /\ request[r].content.uid = request[q].content.uid
        /\ Len(Published(q)) = 1
        /\ ToldDuplicate(r)
        /\ redis[get_update_id_key(request[r].content.uid)].seconds = 1

(***************************************************************************)
(* C20.  translate_inbound_message gives from_addr = message.from.id when  *)
(* the message has a 'from' field and from_addr = message.chat.id when it  *)
(* has none (a channel post); content is always message.text and           *)
(* telegram_msg_id is message.message_id.  Read off the message published  *)
(* for a text message.                                                     *)
(***************************************************************************)
TextUpdate(update) ==
    /\ HighestPriority(update) = "message"
    /\ Has(update, "message")
    /\ Has(update.message, "text")

C20_FromAddrOfTranslation ==
    \A r \in Req :
        (/\ request[r].content.kind = "update"
         /\ TextUpdate(UpdateOf(r))
         /\ Ended(r))
        => /\ Len(Published(r)) = 1
           /\ LET message == UpdateOf(r).message
                  translated == translate_inbound_message(message)
                  msg == Published(r)[1].msg
              IN  /\ Has(message, "from") => translated.from_addr = message.from.id
                  /\ ~Has(message, "from") => translated.from_addr = message.chat.id
                  /\ translated.content = message.text
                  /\ translated.telegram_msg_id = message.message_id
                  /\ msg.from_addr = translated.from_addr
                  /\ msg.content = translated.content
                  /\ msg.transport_metadata.telegram_msg_id = translated.telegram_msg_id

\* A message of a user in a group (sender and chat differ) and a channel
\* post were both translated.
C20_Witness ==
    \E r, q \in Req :
        /\ request[r].content.payload = "text_anon"
        /\ request[q].content.payload = "channel"
        /\ Len(Published(r)) = 1 /\ Len(Published(q)) = 1
        /\ Published(r)[1].msg.from_addr = 43
        /\ Published(q)[1].msg.from_addr = 77

(***************************************************************************)
(* C21.  For every inline_query update that is not a duplicate exactly one *)
(* message is published, with from_addr = inline_query.from.id, content =  *)
(* inline_query.query, transport_metadata of type inline_query with        *)
(* details.inline_query_id = inline_query.id, and helper_metadata.telegram *)
(* with the same type and details and the username of the sender (null     *)
(* when the sender has none).                                              *)
(***************************************************************************)
Dispatched(r) ==
    /\ request[r].content.kind = "update"
    /\ request[r].content.payload # "unread"
    /\ Passed(r)
    /\ Ended(r)

C21_InlineQueryPublished ==
    \A r \in Req :
        (Dispatched(r) /\ HighestPriority(UpdateOf(r)) = "inline_query")
        => /\ request[r].pc = "done"
           /\ Len(Published(r)) = 1
           /\ LET inline_query == UpdateOf(r).inline_query
                  msg == Published(r)[1].msg
              IN  /\ msg.from_addr = inline_query.from.id
                  /\ msg.content = inline_query.query
                  /\ msg.transport_metadata.type = "inline_query"
                  /\ msg.transport_metadata.details
                        = [inline_query_id |-> inline_query.id]
                  /\ msg.helper_metadata.telegram.type = "inline_query"
                  /\ msg.helper_metadata.telegram.details
                        = [inline_query_id |-> inline_query.id]
                  /\ msg.helper_metadata.telegram.telegram_username
                        = Get(inline_query.from, "username")
                  /\ ~Has(inline_query.from, "username")
                        => msg.helper_metadata.telegram.telegram_username = None

\* The inline query of a user without a username was published.
C21_Witness ==
    \E r \in Req :
        /\ request[r].content.payload = "inline_anon"
        /\ request[r].pc = "done"
        /\ Len(Published(r)) = 1
        /\ Published(r)[1].msg.helper_metadata.telegram.telegram_username = None

(***************************************************************************)
(* C22.  For every callback_query update that is not a duplicate and has   *)
(* an id and a from.id, with or without a data field and whether or not    *)
(* the sender has a username, exactly one message is published, with       *)
(* from_addr = callback_query.from.id, content = callback_query.data (null *)
(* when absent) and transport_metadata of type callback_query with         *)
(* details.callback_query_id = callback_query.id, followed by a            *)
(* good_inbound status and HTTP 200.                                       *)
(* Fails on the code: callback_query['from']['username'] is subscripted    *)
(* (lines 263 and 277), so the callback query of a sender without a        *)
(* username raises KeyError: nothing is published, no status is emitted    *)
(* and the response is never finished.                                     *)
(***************************************************************************)
C22_CallbackQueryPublished ==
    \A r \in Req :
        (Dispatched(r) /\ HighestPriority(UpdateOf(r)) = "callback_query")
        => /\ request[r].pc = "done"
           /\ Len(Published(r)) = 1
           /\ LET callback_query == UpdateOf(r).callback_query
                  msg == Published(r)[1].msg
                  log == rlog[r]
              IN  /\ msg.from_addr = callback_query.from.id
                  /\ msg.content = Get(callback_query, "data")
                  /\ msg.transport_metadata.type = "callback_query"
                  /\ msg.transport_metadata.details
                        = [callback_query_id |-> callback_query.id]
                  /\ \E i, j, k \in 1..Len(log) :
                        /\ i < j /\ j < k
                        /\ log[i].ev = "publish_message"
                        /\ GoodInboundStatus(log[j])
                        /\ log[k] = finish
                  /\ request[r].code = 200

(***************************************************************************)
(* C23.  Webhook registration is one-shot: each start of the transport     *)
(* issues exactly one POST to setWebhook whose body url is the configured  *)
(* inbound_url and, once Telegram has answered, has emitted exactly one    *)
(* status on component telegram_webhook, 'ok' if the response validates as *)
(* Success and 'down' otherwise; no second setWebhook request follows a    *)
(* failure.                                                                *)
(* Fails on the code: validate_outbound raises KeyError on a JSON body     *)
(* without 'ok' (code 200) or without 'description' (the bug of C10);      *)
(* setup_webhook ends with the exception and emits no telegram_webhook     *)
(* status at all.                                                          *)
(***************************************************************************)
WebhookStatuses(s) ==
    SelectSeq(slog[s], LAMBDA e : e.ev = "add_status" /\ e.component = "telegram_webhook")
Success(response) == response.code = 200 /\ response.body = "ok_true"

C23_WebhookOneShot ==
    \A s \in Start :
        /\ setup[s] # "idle" =>
            /\ Count(slog[s], "http_post") = 1
            /\ Events(slog[s], "http_post")[1].path = "setWebhook"
            /\ Events(slog[s], "http_post")[1].data = [url |-> inbound_url]
        /\ Count(slog[s], "http_response") = 1 =>
            LET response == Events(slog[s], "http_response")[1].response
            IN  /\ Len(WebhookStatuses(s)) = 1
                /\ WebhookStatuses(s)[1].status
                    = IF Success(response) THEN "ok" ELSE "down"

(***************************************************************************)
(* Reading the dedup store.                                                *)
(***************************************************************************)
KeyOf(r) == get_update_id_key(request[r].content.uid)
SameUpdate(r, q) ==
    /\ r # q
    /\ request[r].content.kind = "update"
    /\ request[q].content.kind = "update"
    /\ request[r].content.uid = request[q].content.uid
\* The handler of r was lost after the dedup step, before it published.
FailedBeforePublish(r) ==
    /\ request[r].pc = "fault"
    /\ Count(rlog[r], "setex") = 1
    /\ Len(Published(r)) = 0

(***************************************************************************)
(* C24.  If the processing of an update that is not a duplicate fails      *)
(* after the dedup step and before its message is published, the update is *)
(* not skipped: a redelivery of the same update_id within the TTL of the   *)
(* record is still processed (it passes the duplicate check and goes on to *)
(* publish).                                                               *)
(* Fails on the code: the update is marked (line 152) before it is         *)
(* processed, so after a failure the record is there and the redelivery is *)
(* dropped as a duplicate.                                                 *)
(***************************************************************************)
C24_RedeliveryAfterFailureProcessed ==
    \A r, q \in Req :
        (/\ SameUpdate(r, q)
         /\ FailedBeforePublish(r)
         /\ r \in marked_before[q]
         /\ r \notin concurrent[q]
         /\ ~expired[KeyOf(r)]
         /\ Ended(q))
        => /\ Passed(q)
           /\ ~ToldDuplicate(q)

(***************************************************************************)
(* C25.  Every parsed update that is not a duplicate is marked seen before *)
(* its payload is dispatched, also an update that is then dropped as no    *)
(* message or no text message: a second delivery of it within the TTL of   *)
(* the record is told to be a duplicate.  In every reachable state, every  *)
(* update_id for which a message has been published was written to the     *)
(* dedup store before that publish.                                        *)
(***************************************************************************)
C25_MarkedBeforeDispatch ==
    \A r \in Req :
        LET log == rlog[r]
        IN  /\ request[r].content.payload # "unread" =>
                /\ Count(log, "setex") = 1
                /\ Events(log, "setex")[1].key = KeyOf(r)
            /\ \A i \in Places(log, "publish_message") \cup Places(log, "finish") :
                Passed(r) => \E j \in Places(log, "setex") :
                                j < i /\ log[j].key = KeyOf(r)
            /\ \A i \in Places(log, "publish_message") : r \in Marked(KeyOf(r))
            /\ \A q \in Req :
                (/\ SameUpdate(r, q)
                 /\ q \in marked_before[r]
                 /\ ~expired[KeyOf(r)])
                => ToldDuplicate(r) /\ Len(Published(r)) = 0

\* A message without text was dropped, and its second delivery was told to
\* be a duplicate.
C25_Witness ==
    \E r, q \in Req :
        /\ SameUpdate(r, q)
        /\ request[q].content.payload = "photo"
        /\ request[q].pc = "done"
        /\ q \in marked_before[r]
        /\ ToldDuplicate(r)

(***************************************************************************)
(* C26.  After mark_as_seen(id), is_duplicate(id) is true until            *)
(* update_lifetime seconds have passed and false once the record has       *)
(* expired; a redelivery after that is processed as a new update (marked   *)
(* again).                                                                 *)
(* Fails on the code: mark_as_seen calls setex(key, 1, update_lifetime),   *)
(* and the second argument of setex is the time to live: the record lives  *)
(* 1 second and update_lifetime is the value stored.  One second after     *)
(* mark_as_seen, is_duplicate is false whatever update_lifetime is.        *)
(***************************************************************************)
C26_DuplicateForUpdateLifetime ==
    /\ \A k \in Keys :
        Marked(k) # {} => (redis_exists(k) <=> elapsed[k] < update_lifetime)
    /\ \A r \in Req :
        (request[r].content.kind = "update" /\ marked_before[r] # {}
            /\ Passed(r) /\ request[r].pc \in {"dispatch", "done", "fault"})
        => Count(rlog[r], "setex") = 1

(***************************************************************************)
(* C27.  Duplicate deliveries never extend the life of a dedup record:     *)
(* mark_as_seen is called only for updates that passed the duplicate       *)
(* check, so the record of an update that is delivered again and again     *)
(* expires update_lifetime after the first receipt, not after the last     *)
(* retransmission.                                                         *)
(* Fails on the code: no duplicate writes to the store, as claimed, but    *)
(* the record expires 1 second after the first receipt, not                *)
(* update_lifetime after it (the setex call of C26).                       *)
(***************************************************************************)
C27_DuplicatesDoNotExtend ==
    /\ \A r \in Req : ToldDuplicate(r) => Count(rlog[r], "setex") = 0
    /\ \A k \in Keys :
        (/\ Cardinality(Marked(k)) = 1
         /\ \E q \in Req : request[q].content.kind = "update"
                            /\ KeyOf(q) = k /\ ToldDuplicate(q))
        => (redis_exists(k) <=> elapsed[k] < update_lifetime)

(***************************************************************************)
(* C28.  For every text message, with or without a username in its from   *)
(* object (in its chat object for a channel post), the translation does    *)
(* not fail: telegram_username is null when there is none, and the message *)
(* is published with helper_metadata.telegram.telegram_username = null.    *)
(***************************************************************************)
SenderOf(message) == IF Has(message, "from") THEN message.from ELSE message.chat

C28_UsernameOptional ==
    \A r \in Req :
        (Dispatched(r) /\ TextUpdate(UpdateOf(r)))
        => /\ request[r].pc = "done"
           /\ request[r].code = 200
           /\ Len(Published(r)) = 1
           /\ LET sender == SenderOf(UpdateOf(r).message)
                  msg == Published(r)[1].msg
                  username == IF Has(sender, "username") THEN sender.username ELSE None
              IN  /\ msg.helper_metadata.telegram.telegram_username = username
                  /\ msg.transport_metadata.telegram_username = username

\* A message of a user and a channel post, both without a username, were
\* published.
C28_Witness ==
    \E r, q \in Req :
        /\ request[r].content.payload = "text_anon"
        /\ request[q].content.payload = "channel_anon"
        /\ Len(Published(r)) = 1 /\ Len(Published(q)) = 1
        /\ Published(r)[1].msg.helper_metadata.telegram.telegram_username = None
        /\ Published(q)[1].msg.helper_metadata.telegram.telegram_username = None

(***************************************************************************)
(* C29.  On a failed sendMessage call the reason of the nack is 'Message   *)
(* not sent: ' followed by the message of the validator, the 'down' status *)
(* on component telegram_outbound has the same text as its message, and    *)
(* the type of the status is the category of the validator:                *)
(* request_redirected for a 302, unexpected_response_format for a body     *)
(* that is not JSON, bad_response for a rejection by the API; the details  *)
(* carry error and res_code.                                               *)
(***************************************************************************)
CategoryOf(response) ==
    IF Redirected(response) THEN "request_redirected"
    ELSE IF Unparseable(response) THEN "unexpected_response_format"
    ELSE "bad_response"
ValidatorMessage(response) ==
    IF Redirected(response) THEN "request redirected"
    ELSE IF Unparseable(response) THEN "unexpected response format"
    ELSE "bad response from Telegram"

C29_PlainFailureReport ==
    \A m \in Msg :
        (SentMessage(m) /\ Answered(m) /\ FailsValidation(ResponseOf(m)))
        => /\ Count(mlog[m], "publish_nack") = 1
           /\ Len(Statuses(mlog[m], "down")) = 1
           /\ LET response == ResponseOf(m)
                  nack == Events(mlog[m], "publish_nack")[1]
                  status == Statuses(mlog[m], "down")[1]
              IN  /\ nack.reason = <<"Message not sent: ", ValidatorMessage(response)>>
                  /\ nack.reason[2] = validate_outbound(response).message
                  /\ status.component = "telegram_outbound"
                  /\ status.message = nack.reason
                  /\ status.type = CategoryOf(response)
                  /\ Has(status.details, "error")
                  /\ Has(status.details, "res_code")
                  /\ status.details.res_code = response.code

\* A sendMessage call was answered with a body that is not JSON.
C29_Witness ==
    \E m \in Msg :
        /\ SentMessage(m)
        /\ Answered(m)
        /\ ResponseOf(m) = [code |-> 200, body |-> "garbage"]
        /\ Len(Statuses(mlog[m], "down")) = 1

(***************************************************************************)
(* C30.  When the reply to an inline query or to a callback query fails    *)
(* remotely, the 'down' status is emitted on component telegram_outbound   *)
(* and its details hold, next to error and res_code, the id of the query   *)
(* answered (inline_query_id or callback_query_id), equal to the id in     *)
(* transport_metadata.details of the outbound message.                     *)
(***************************************************************************)
QueryIdKey(m) ==
    IF TypeOf(m) = "inline_query" THEN "inline_query_id" ELSE "callback_query_id"

C30_QueryIdInFailureDetails ==
    \A m \in Msg :
        (/\ TypeOf(m) \in {"inline_query", "callback_query"}
         /\ Answered(m)
         /\ FailsValidation(ResponseOf(m)))
        => /\ Len(Statuses(mlog[m], "down")) = 1
           /\ LET status == Statuses(mlog[m], "down")[1]
                  details == MessageOf(m).transport_metadata.details
              IN  /\ status.component = "telegram_outbound"
                  /\ Has(status.details, "error")
                  /\ Has(status.details, "res_code")
                  /\ status.details.res_code = ResponseOf(m).code
                  /\ Has(status.details, QueryIdKey(m))
                  /\ status.details[QueryIdKey(m)] = details[QueryIdKey(m)]

\* An inline query reply was rejected by the API.
C30_Witness ==
    \E m \in Msg :
        /\ TypeOf(m) = "inline_query"
        /\ Answered(m)
        /\ ResponseOf(m) = [code |-> 400, body |-> "ok_false_description"]
        /\ Len(Statuses(mlog[m], "down")) = 1

(***************************************************************************)
(* C31.  A successful inline query reply issues one POST to                *)
(* answerInlineQuery with the inline_query_id and the results of the       *)
(* outbound message, then publishes exactly one ack, then an 'ok' status   *)
(* of type good_outbound_request on telegram_outbound, then one more 'ok'  *)
(* status for the query reply, on component telegram_query_reply with type *)
(* good_query_reply, in that order.                                        *)
(* Fails on the code: the last status is emitted on component              *)
(* telegram_inline_query_reply with type good_inline_query_reply; the test *)
(* of the transport expects telegram_query_reply / good_query_reply.       *)
(***************************************************************************)
C31_InlineReplySuccess ==
    \A m \in Msg :
        (TypeOf(m) = "inline_query" /\ Answered(m) /\ Success(ResponseOf(m)))
        => LET log == mlog[m]
               message == MessageOf(m)
           IN  /\ Len(log) = 5
               /\ log[1].ev = "http_post"
               /\ log[1].path = "answerInlineQuery"
               /\ log[1].data =
                    [inline_query_id |-> message.transport_metadata.details.inline_query_id,
                     results |-> message.helper_metadata.telegram.results]
               /\ log[2].ev = "http_response"
               /\ log[3] = publish_ack(m, m)
               /\ GoodOutboundStatus(log[4])
               /\ log[5].ev = "add_status"
               /\ log[5].status = "ok"
               /\ log[5].component = "telegram_query_reply"
               /\ log[5].type = "good_query_reply"

(***************************************************************************)
(* C32.  When the registration of the webhook fails, the 'down' status on  *)
(* component telegram_webhook has the category of the validator as its     *)
(* type (bad_response, request_redirected or unexpected_response_format),  *)
(* the message 'Webhook setup failed: ' followed by the message of the     *)
(* validator, and the details of the validator: error and res_code, and    *)
(* the raw body for a response that is not JSON.                           *)
(***************************************************************************)
SetupAnswered(s) == Count(slog[s], "http_response") = 1
SetupResponse(s) == Events(slog[s], "http_response")[1].response

C32_WebhookFailureStatus ==
    \A s \in Start :
        (SetupAnswered(s) /\ FailsValidation(SetupResponse(s)))
        => /\ setup[s] = "done"
           /\ Len(WebhookStatuses(s)) = 1
           /\ Len(Statuses(slog[s], "ok")) = 0
           /\ LET response == SetupResponse(s)
                  status == WebhookStatuses(s)[1]
              IN  /\ status.status = "down"
                  /\ status.type = CategoryOf(response)
                  /\ status.message
                        = <<"Webhook setup failed: ", ValidatorMessage(response)>>
                  /\ Has(status.details, "error")
                  /\ status.details.res_code = response.code
                  /\ Unparseable(response) <=> Has(status.details, "res_body")
                  /\ Unparseable(response) => status.details.res_body = response.body
                  /\ Rejected(response)
                        => status.details.error = BodyField(response.body, "description")

\* One start was answered with a redirect, the next with a body that is not
\* JSON.
C32_Witness ==
    \E s, t \in Start :
        /\ SetupAnswered(s) /\ SetupAnswered(t)
        /\ Redirected(SetupResponse(s))
        /\ Unparseable(SetupResponse(t))
        /\ Len(WebhookStatuses(s)) = 1 /\ Len(WebhookStatuses(t)) = 1

(***************************************************************************)
(* C38.  On every path through handle_raw_inbound_message that returns     *)
(* normally the HTTP response is finished exactly once, and after every    *)
(* publish and every status of the request; on the path of a body that is  *)
(* not JSON the code 400 is set before the response is finished.           *)
(***************************************************************************)
C38_FinishedOnceAndLast ==
    \A r \in Req :
        request[r].pc = "done"
        => LET log == rlog[r]
               ends == Places(log, "finish")
           IN  /\ Cardinality(ends) = 1
               /\ request[r].finished = 1
               /\ \A k \in ends :
                    \A i \in Places(log, "publish_message") \cup Places(log, "add_status")
                             \cup Places(log, "setResponseCode") : i < k
               /\ request[r].content.kind = "garbage"
                    => /\ Count(log, "setResponseCode") = 1
                       /\ Events(log, "setResponseCode")[1].code = 400

\* A published update, and a body that is not JSON, were both answered.
C38_Witness ==
    \E r, q \in Req :
        /\ request[r].pc = "done" /\ request[q].pc = "done"
        /\ Len(Published(r)) = 1
        /\ request[q].content.kind = "garbage"

(***************************************************************************)
(* C39.  mark_as_seen is idempotent with respect to membership: called for *)
(* an update_id that is already marked it leaves is_duplicate true for     *)
(* that id and changes the membership of no other id; its only effect is   *)
(* to set the time to live of the record back to update_lifetime.          *)
(* Fails on the code: membership is as claimed, but setex(key, 1,          *)
(* update_lifetime) sets the time to live of the record to 1 second (the   *)
(* setex call of C26).                                                     *)
(***************************************************************************)
C39_MarkAgainResetsLifetime ==
    [][\A r \in Req :
        (/\ request[r].pc = "mark_as_seen"
         /\ request'[r].pc = "dispatch"
         /\ redis[KeyOf(r)].seconds > 0)
        => /\ redis'[KeyOf(r)].seconds > 0
           /\ \A k \in Keys \ {KeyOf(r)} : redis'[k] = redis[k]
           /\ redis'[KeyOf(r)].seconds = update_lifetime]_vars

(***************************************************************************)
(* C33.  On start the transport emits a 'down' status on component         *)
(* telegram_setup with type starting before it issues the setWebhook       *)
(* request: in every run the starting status is the first thing the        *)
(* transport does, it precedes the request to setWebhook and the           *)
(* telegram_webhook status, and no inbound or outbound status is emitted   *)
(* before a transport has reported that it is starting.                    *)
(***************************************************************************)
StartingStatus(e) ==
    /\ e.ev = "add_status"
    /\ e.status = "down"
    /\ e.component = "telegram_setup"
    /\ e.type = "starting"
TaskStatuses ==
    UNION {Places(rlog[r], "add_status") : r \in Req}
        \cup UNION {Places(mlog[m], "add_status") : m \in Msg}

Acks(m) == Count(mlog[m], "publish_ack") + Count(mlog[m], "publish_nack")

C34_NoTaskStopsUnanswered ==
    /\ \A r \in Req :
        request[r].pc # "idle" => (request[r].finished = 1 \/ InFlight(r))
    /\ \A m \in Msg :
        Sent(m) => (Acks(m) = 1 \/ outbound[m].pc = "awaiting")
    /\ \A m \in Msg :
        outbound[m].pc = "awaiting" => Acks(m) = 0

(***************************************************************************)
(* C35.  For every inbound callback query that the adapter publishes,      *)
(* answerCallbackQuery is eventually called for the same                   *)
(* callback_query_id, whether or not the application sends a reply.        *)
(* Fails on the code: the adapter calls answerCallbackQuery only from the  *)
(* handler of an outbound reply; when the application sends none, the call *)
(* is never made.                                                          *)
(***************************************************************************)
CallbackQueryPublished(r) ==
    /\ Published(r) # <<>>
    /\ KindPublished(Published(r)[1].msg) = "callback_query"
CallbackQueryAnswered(r) ==
    /\ CallbackQueryPublished(r)
    /\ \E m \in Msg : \E i \in Places(mlog[m], "http_post") :
        /\ mlog[m][i].path = "answerCallbackQuery"
        /\ mlog[m][i].data.callback_query_id
            = Published(r)[1].msg.transport_metadata.details.callback_query_id

C35_CallbackQueryEventuallyAnswered ==
    \A r \in Req : CallbackQueryPublished(r) ~> CallbackQueryAnswered(r)

(***************************************************************************)
(* C36.  Metadata round trip: when the application replies to a published  *)
(* update and echoes its transport_metadata unchanged, whatever the reply  *)
(* posts goes to the matching method with the original identifier: for an  *)
(* inline query to answerInlineQuery with the same inline_query_id, for a  *)
(* callback query to answerCallbackQuery with the same callback_query_id,  *)
(* for a text message to sendMessage with reply_to_message_id equal to the *)
(* message_id of the Telegram message.                                     *)
(* Fails on the code: the reply to a text message whose                    *)
(* helper_metadata.telegram holds reply_to_message_id is posted with that  *)
(* value (the update of C12 and C14).                                      *)
(***************************************************************************)
IsReply(m) == Sent(m) /\ Has(outbound[m].shape, "echo")
Original(m) == Published(outbound[m].shape.echo)[1].msg

C36_MetadataRoundTrip ==
    \A m \in Msg :
        IsReply(m)
        => LET meta == Original(m).transport_metadata
               kind == KindPublished(Original(m))
           IN  /\ Len(Posts(m)) <= 1
               /\ \A i \in 1..Len(Posts(m)) :
                    LET post == Posts(m)[i]
                    IN  /\ post.path = MethodOf(kind)
                        /\ kind = "inline_query"
                            => post.data.inline_query_id = meta.details.inline_query_id
                        /\ kind = "callback_query"
                            => post.data.callback_query_id = meta.details.callback_query_id
                        /\ kind = "message"
                            => post.data.reply_to_message_id = meta.telegram_msg_id

(***************************************************************************)
(* C37.  Tasks are independent: whatever the interleaving, the outcome of  *)
(* a webhook request whose update_id no other request carries, and of an   *)
(* outbound delivery, is what the task produces when it runs alone, also   *)
(* when another task has failed; the dedup store is the only state the     *)
(* tasks share, and outbound deliveries neither read nor write it: the     *)
(* store holds the keys the webhook requests have set and nothing else.    *)
(***************************************************************************)
\* What the handler of request r logs when it meets no other task.
AloneInbound(r) ==
    LET c == request[r].content
        u == read_update(c)
        key == get_update_id_key(c.uid)
    IN  IF u.raised \/ u.events # <<>> THEN u.events
        ELSE <<redis_call("exists", key, FALSE), redis_call("setex", key, TRUE)>>
                \o dispatch_update(r, json_loads(c).value).events
AloneOutbound(m) ==
    LET s == send_message(MessageOf(m))
    IN  IF Answered(m)
        THEN s.events \o <<http_response(ResponseOf(m))>>
                \o handle_response(MessageOf(m), ResponseOf(m)).events
        ELSE s.events
OwnUpdate(r) ==
    \A q \in Req \ {r} :
        request[q].content.kind = "update" => request[q].content.uid # request[r].content.uid

=============================================================================
